---- MODULE Spec2Model ----
(***************************************************************************)
(* Model of the parallel document processor: DocumentProcessor in          *)
(* docsprocessor.py and the aggregation functions of doc_processor.py.     *)
(*                                                                         *)
(* A text is a sequence of one-character strings.  A Python value is a     *)
(* tagged record [t |-> tag, v |-> payload] with tag "int", "str", "set",  *)
(* "dict" or "list"; a word is a sequence of characters; the entries of a  *)
(* dict are tagged values too, because dict.update can put a str where the *)
(* frequency tables keep an int.                                           *)
(***************************************************************************)
EXTENDS Integers, Sequences, FiniteSets, TLC

(* ---------------------------- bounds ----------------------------------- *)

\* most records of a merge-only run
MaxRecords == 3
\* most workers of a merge-only run
MaxMergeWorkers == 2
\* longest exhaustively enumerated document
MaxLen == 4
\* largest chunk size tried besides the scenario's chunk size
MaxChunkSize == 3
\* largest worker count tried besides the scenario's 8 workers
MaxThreads == 2
\* how many aggregation function calls of one run may raise
MaxFail == 1

(* --------------------------- characters -------------------------------- *)

Space == " "
Tab == "\t"
Newline == "\n"

\* str.split() with no argument separates on runs of whitespace
IsWhitespace(c) == c \in {Space, Tab, Newline}

\* str.lower() on the characters the documents use
Lower(c) == IF c = "A" THEN "a" ELSE IF c = "T" THEN "t" ELSE c

\* the characters of the exhaustively enumerated documents
Alphabet == {"a", Space}

(* ------------------------- Python arithmetic --------------------------- *)

\* Python's // : the floor of a / b for either sign of a and b, b # 0
FloorDiv(a, b) ==
    IF b > 0
    THEN (IF a >= 0 THEN a \div b ELSE -(((-a) + b - 1) \div b))
    ELSE (IF a <= 0 THEN (-a) \div (-b) ELSE -((a + (-b) - 1) \div (-b)))

Min(a, b) == IF a < b THEN a ELSE b
Max(a, b) == IF a > b THEN a ELSE b

(* --------------------------- Python strings ---------------------------- *)

\* text[start:end] with Python's treatment of negative and overlong indices
\* (start and end are 0-based, end exclusive)
Slice(text, start, end) ==
    LET n == Len(text)
        s == IF start < 0 THEN Max(n + start, 0) ELSE Min(start, n)
        e == IF end < 0 THEN Max(n + end, 0) ELSE Min(end, n)
    IN  IF s >= e THEN << >> ELSE SubSeq(text, s + 1, e)

\* chunk.find(' ') in the place of rfind: the first space
FindSpace(chunk) ==
    LET hits == {k \in 1..Len(chunk) : chunk[k] = Space}
    IN  IF hits = {} THEN -1
        ELSE (CHOOSE k \in hits : \A j \in hits : k <= j) - 1

\* chunk.rfind(' '): 0-based index of the last space, -1 when there is none
RFindSpace(chunk) ==
    LET hits == {k \in 1..Len(chunk) : chunk[k] = Space}
    IN  IF hits = {} THEN -1
        ELSE (CHOOSE k \in hits : \A j \in hits : j <= k) - 1

\* text.lower().replace(',', '').replace('.', '')
Normalise(text) ==
    LET low == [k \in 1..Len(text) |-> Lower(text[k])]
    IN  SelectSeq(low, LAMBDA c : c \notin {",", "."})

RECURSIVE SplitWords(_, _, _)
\* str.split(): the maximal runs of non-whitespace characters, in order;
\* cur is the word being read, k the next position
SplitWords(text, k, cur) ==
    IF k > Len(text)
    THEN (IF cur = << >> THEN << >> ELSE << cur >>)
    ELSE IF IsWhitespace(text[k])
         THEN (IF cur = << >> THEN SplitWords(text, k + 1, << >>)
               ELSE << cur >> \o SplitWords(text, k + 1, << >>))
         ELSE SplitWords(text, k + 1, Append(cur, text[k]))

Words(text) == SplitWords(Normalise(text), 1, << >>)

\* words.count(word)
Count(seq, x) == Cardinality({k \in 1..Len(seq) : seq[k] = x})

Range(seq) == {seq[k] : k \in 1..Len(seq)}

(* ---------------------------- Python values ---------------------------- *)

IntV(n) == [t |-> "int", v |-> n]
StrV(s) == [t |-> "str", v |-> s]
SetV(S) == [t |-> "set", v |-> S]
DictV(f) == [t |-> "dict", v |-> f]
ListV(S) == [t |-> "list", v |-> S]

\* {} : the dict with no key
EmptyRecord == [k \in {} |-> IntV(0)]

\* the keys of the result records in the order the dict literals of the
\* aggregation functions insert them; a record built by merging such
\* records keeps this order, and .items() iterates in it
KeyOrder == << "total_words", "word_frequencies", "total_chars",
               "char_frequencies", "unique_words_count", "unique_words",
               "n", "m" >>

Items(rec) == SelectSeq(KeyOrder, LAMBDA k : k \in DOMAIN rec)

(* ----------------------- aggregation functions ------------------------- *)

word_count_processor(text) ==
    LET words == Words(text)
    IN  [k \in {"total_words", "word_frequencies"} |->
            IF k = "total_words" THEN IntV(Len(words))
            ELSE DictV([w \in Range(words) |-> IntV(Count(words, w))])]

char_count_processor(text) ==
    [k \in {"total_chars", "char_frequencies"} |->
        IF k = "total_chars" THEN IntV(Len(text))
        ELSE DictV([c \in {<< x >> : x \in Range(text)} |->
                       IntV(Count(text, c[1]))])]

unique_words_processor(text) ==
    LET words == Words(text)
    IN  [k \in {"unique_words_count", "unique_words"} |->
            IF k = "unique_words_count" THEN IntV(Cardinality(Range(words)))
            ELSE SetV(Range(words))]

\* A caller-supplied function that breaks the contract of a fixed value
\* shape per key: "n" is always a counter, "m" is a counter for a chunk
\* without words, a set for a chunk of one word and a frequency table for
\* a chunk of several words.
shape_shifting_processor(text) ==
    LET words == Words(text)
    IN  [k \in {"n", "m"} |->
            IF k = "n" THEN IntV(Len(words))
            ELSE IF Len(words) = 0 THEN IntV(0)
            ELSE IF Len(words) = 1 THEN SetV(Range(words))
            ELSE DictV([w \in Range(words) |-> IntV(Count(words, w))])]

Processors == {"word_count", "char_count", "unique_words", "shape_shifting"}

\* processor(chunk), when it returns
Apply(proc, text) ==
    CASE proc = "word_count" -> word_count_processor(text)
      [] proc = "char_count" -> char_count_processor(text)
      [] proc = "unique_words" -> unique_words_processor(text)
      [] proc = "shape_shifting" -> shape_shifting_processor(text)

(* ------------------------------ the merge ------------------------------ *)

\* f[k] = x, for a key that f may lack
Put(f, k, x) == [j \in DOMAIN f \cup {k} |-> IF j = k THEN x ELSE f[j]]

RECURSIVE Orderings(_)
\* the orders in which the elements of a set or the keys of a dict built
\* from a set can be iterated
Orderings(S) ==
    IF S = {} THEN {<< >>}
    ELSE UNION {{<< x >> \o rest : rest \in Orderings(S \ {x})} : x \in S}

Outcome(val, err) == [val |-> val, err |-> err]

RECURSIVE DictUpdateFromSeq(_, _)
\* dict.update(iterable of str), the elements taken in the order of seq:
\* an element of two characters becomes the entry first -> second, any
\* other element raises ValueError after the earlier ones were stored
DictUpdateFromSeq(d, seq) ==
    IF seq = << >> THEN Outcome(DictV(d), "none")
    ELSE LET e == Head(seq)
         IN  IF Len(e) # 2 THEN Outcome(DictV(d), "ValueError")
             ELSE DictUpdateFromSeq(Put(d, << e[1] >>, StrV(<< e[2] >>)),
                                    Tail(seq))

RECURSIVE DictMergeFromSeq(_, _, _)
\* the loop over value.items() of the dict branch, the sub-keys taken in
\* the order of seq; `+=` on an entry that is not an int raises TypeError
\* after the earlier sub-keys were merged
DictMergeFromSeq(d, src, seq) ==
    IF seq = << >> THEN Outcome(DictV(d), "none")
    ELSE LET subkey == Head(seq)
             subvalue == src[subkey]
         IN  IF subkey \notin DOMAIN d
             THEN DictMergeFromSeq(Put(d, subkey, subvalue), src, Tail(seq))
             ELSE IF subvalue.t = "int"
             THEN (IF d[subkey].t = "int"
                   THEN DictMergeFromSeq(
                            Put(d, subkey, IntV(d[subkey].v + subvalue.v)),
                            src, Tail(seq))
                   ELSE Outcome(DictV(d), "TypeError"))
             ELSE DictMergeFromSeq(d, src, Tail(seq))

\* dict.update in the place of the loop: the source's entry replaces the
\* target's
DictMergeOverwrite(d, src) ==
    {Outcome(DictV([k \in DOMAIN d \cup DOMAIN src |->
                       IF k \in DOMAIN src THEN src[k] ELSE d[k]]), "none")}

\* the dict branch when the target is a dict: the iteration order only
\* matters when some `+=` can raise
DictMerge(d, src) ==
    IF \E k \in DOMAIN src \cap DOMAIN d :
           src[k].t = "int" /\ d[k].t # "int"
    THEN {DictMergeFromSeq(d, src, ord) : ord \in Orderings(DOMAIN src)}
    ELSE {Outcome(DictV([k \in DOMAIN d \cup DOMAIN src |->
                     IF k \notin DOMAIN d THEN src[k]
                     ELSE IF k \in DOMAIN src /\ src[k].t = "int"
                          THEN IntV(d[k].v + src[k].v)
                          ELSE d[k]]), "none")}

\* The branches taken for a key that the target already has: the possible
\* new values of target[key], each with the exception raised, if any.
\* tv is target[key], value the source's value.
MergeValue(tv, value) ==
    CASE value.t = "int" ->
            \* target[key] += value
            IF tv.t = "int" THEN {Outcome(IntV(tv.v + value.v), "none")}
            ELSE {Outcome(tv, "TypeError")}
      [] value.t = "set" ->
            \* target[key].update(value)
            IF tv.t = "set" THEN {Outcome(SetV(tv.v \cup value.v), "none")}
            ELSE IF tv.t = "dict"
            THEN {DictUpdateFromSeq(tv.v, ord) : ord \in Orderings(value.v)}
            ELSE {Outcome(tv, "AttributeError")}
      [] value.t = "dict" ->
            \* for subkey, subvalue in value.items(): ...
            IF DOMAIN value.v = {} THEN {Outcome(tv, "none")}
            ELSE IF tv.t = "dict" THEN DictMerge(tv.v, value.v)
            ELSE {Outcome(tv, "TypeError")}
      [] OTHER -> {Outcome(tv, "none")}

Result(rec, err) == [rec |-> rec, err |-> err]

RECURSIVE MergeItems(_, _, _)
\* for key, value in source.items(): the merge of the keys in `keys` into
\* target, stopping at the first exception; the possible results, each the
\* record reached and the exception raised, if any
MergeItems(target, source, keys) ==
    IF keys = << >> THEN {Result(target, "none")}
    ELSE LET key == Head(keys)
             value == source[key]
         IN  IF key \notin DOMAIN target
             THEN MergeItems(Put(target, key, value), source, Tail(keys))
             ELSE UNION {
                    IF o.err = "none"
                    THEN MergeItems(Put(target, key, o.val), source,
                                    Tail(keys))
                    ELSE {Result(Put(target, key, o.val), o.err)}
                    : o \in MergeValue(target[key], value)}

\* some key of both records holds values of two different types
ShapeMismatch(target, source) ==
    \E k \in DOMAIN target \cap DOMAIN source : target[k].t # source[k].t

\* the merge loop of process_chunks and of process_document_parallel
Merge(target, source) == MergeItems(target, source, Items(source))

(* ------------------------------ the split ------------------------------ *)

\* total_chunks = (len(text) + self.chunk_size - 1) // self.chunk_size
TotalChunks(txt, cs) == FloorDiv(Len(txt) + cs - 1, cs)

\* chunks_per_thread = total_chunks // num_threads
ChunksPerThread(total, nt) == FloorDiv(total, nt)

\* the index without the clamp to the last list
ThreadIndexNoClamp(i, cpt, nt) == FloorDiv(i, cpt)

\* the 0-based index of the list that chunk i is appended to
ThreadIndex(i, cpt, nt) ==
    LET thread_index == FloorDiv(i, cpt)
    IN  IF thread_index >= nt THEN nt - 1 ELSE thread_index

\* chunk[last_space + 1:] in the place of chunk[:last_space]: the cut keeps
\* what follows the last space
ChunkKeepsTail(txt, cs, i) ==
    LET start == i * cs
        end == Min((i + 1) * cs, Len(txt))
        chunk == Slice(txt, start, end)
        last_space == RFindSpace(chunk)
    IN  IF end < Len(txt) /\ last_space # -1
        THEN Slice(chunk, last_space + 1, Len(chunk))
        ELSE chunk

\* chunk i: the window text[i*S : (i+1)*S], cut at its last space when the
\* window ends before the end of the text
Chunk(txt, cs, i) ==
    LET start == i * cs
        end == Min((i + 1) * cs, Len(txt))
        chunk == Slice(txt, start, end)
        last_space == RFindSpace(chunk)
    IN  IF end < Len(txt) /\ last_space # -1
        THEN Slice(chunk, 0, last_space)
        ELSE chunk

\* the exception split_document_for_threads raises, "none" when it returns
SplitError(exists, txt, cs, nt) ==
    IF ~exists THEN "FileNotFoundError"
    ELSE IF Len(txt) = 0 THEN "ValueError"
    ELSE IF cs = 0 THEN "ZeroDivisionError"
    ELSE IF nt = 0 THEN "ZeroDivisionError"
    ELSE IF TotalChunks(txt, cs) <= 0 THEN "none"
    ELSE IF ChunksPerThread(TotalChunks(txt, cs), nt) = 0
         THEN "ZeroDivisionError"
    ELSE IF nt < 0 THEN "IndexError"
    ELSE "none"

\* for each of the num_threads lists, the indices of the chunks appended to
\* it, in the order of the loop (list w of the model is thread_chunks[w-1])
SplitIds(txt, cs, nt) ==
    LET total == TotalChunks(txt, cs)
        cpt == ChunksPerThread(total, nt)
        ids == [k \in 1..total |-> k - 1]
    IN  [w \in 1..nt |->
            SelectSeq(ids, LAMBDA i : ThreadIndex(i, cpt, nt) = w - 1)]

\* thread_chunks as returned
SplitChunks(txt, cs, nt) ==
    LET ids == SplitIds(txt, cs, nt)
    IN  [w \in 1..nt |->
            [k \in 1..Len(ids[w]) |-> Chunk(txt, cs, ids[w][k])]]

(* ------------------------------ the inputs ----------------------------- *)

RECURSIVE Texts(_)
\* the texts over Alphabet of length n
Texts(n) ==
    IF n = 0 THEN {<< >>}
    ELSE {Append(t, c) : t \in Texts(n - 1), c \in Alphabet}

BoundedTexts == UNION {Texts(n) : n \in 0..MaxLen}

\* "the cat sat on the mat"
CatDoc == << "t", "h", "e", " ", "c", "a", "t", " ", "s", "a", "t", " ",
             "o", "n", " ", "t", "h", "e", " ", "m", "a", "t" >>

\* texts with a tab, a newline, punctuation, capitals and two-letter words
OtherTexts == { << "a", Tab, "a", " ", "a", "a" >>,
                << "a", " ", "a", Tab, "a" >>,
                << "a", Newline, "a", "a" >>,
                << "A", ",", " ", "a", ".", " ", "T" >>,
                << "a", " ", "a", " ", "a", "a" >>,
                << "a", "a", " ", " ", "a", " ", "a" >> }

\* nine one-character chunks
LongDoc == << "a", " ", "a", " ", "a", " ", "a", " ", "a" >>

\* num_threads: int = 4
DefaultThreads == 4

Input(txt, cs, nt, procs) ==
    [text |-> txt, chunk_size |-> cs, num_threads |-> nt, processors |-> procs]

\* the runs: every bounded text with every small configuration; the
\* sentence with chunk size 10 and 1, 2, 3, 4 and 8 workers; short texts
\* in one chunk of size 10 with 1, 4 and 8 workers; and a text of nine
\* chunks with 1 worker
Inputs ==
    {Input(txt, cs, nt, Processors) :
         txt \in BoundedTexts \cup OtherTexts,
         cs \in -2..MaxChunkSize, nt \in -1..MaxThreads}
    \cup {Input(CatDoc, 10, nt, Processors) :
              nt \in {1, 2, 3, DefaultThreads, 8}}
    \cup {Input(txt, 10, nt, Processors) :
              txt \in Texts(1) \cup Texts(2),
              nt \in {1, DefaultThreads, 8}}
    \cup {Input(LongDoc, 1, 1, Processors)}

(* ------------------------------ the state ------------------------------ *)

VARIABLES
    file_exists,     \* whether file_path names a readable file
    text,            \* the decoded content of the file
    chunk_size,      \* self.chunk_size
    num_threads,     \* the num_threads argument
    processor,       \* the processor argument
    chunk_results,   \* per worker, the records a merge-only run is given
    pc,              \* where process_document_parallel is
    error,           \* the exception that left process_document_parallel
    thread_chunks,   \* the lists returned by split_document_for_threads
    chunk_ids,       \* for each chunk of thread_chunks, its index i
    pos,             \* per worker, how many chunks its loop has handled
    done,            \* per worker, whether its future has a result
    thread_results,  \* per worker, the dict process_chunks builds
    calls,           \* per chunk index, how often processor was called
    failed,          \* the chunk indices for which processor raised
    contained,       \* the chunk indices whose merge raised in a worker
    mismatch_at,     \* the merge levels that met two shapes for one key
    all_results,     \* the results taken from the futures so far
    final_results,   \* the dict process_document_parallel builds
    alias,           \* key -> worker whose object final_results[key] is
    merged,          \* how many entries of all_results have been merged
    report,          \* the dict returned, NoReport before
    file_path,           \* the text of the file entry (self.file_path)
    num_threads_var,     \* the text of the spinbox (self.num_threads)
    processing_var,      \* the radio button chosen (self.processing_var)
    process_button,      \* the state of the Start button
    is_processing,       \* whether the Event self.is_processing is set
    thread_windows,      \* how many result boxes self.thread_windows has
    merged_result_text,  \* what the merged results box shows
    processing_threads,  \* the live threads running safe_process_file
    results_queue,       \* self.results_queue
    events               \* the virtual events generated and not yet handled

vars == << file_exists, text, chunk_size, num_threads, processor,
           chunk_results, pc, error, thread_chunks, chunk_ids, pos, done, thread_results, calls,
           failed, contained, mismatch_at, all_results, final_results,
           alias, merged, report, file_path, num_threads_var,
           processing_var, process_button, is_processing, thread_windows,
           merged_result_text, processing_threads, results_queue, events >>

inputs == << file_exists, text, chunk_size, num_threads, processor,
            chunk_results >>
workers == << pos, done, thread_results, calls, failed, contained >>
merging == << all_results, final_results, alias, merged >>
gui == << file_path, num_threads_var, processing_var, process_button,
         is_processing, thread_windows, merged_result_text,
         processing_threads, results_queue, events >>

NoReport == [thread_results |-> << >>, merged_results |-> EmptyRecord,
             returned |-> FALSE]

Workers == 1..num_threads

InitRun ==
    /\ pc = "start"
    /\ error = "none"
    /\ thread_chunks = << >>
    /\ chunk_ids = << >>
    /\ pos = << >>
    /\ done = << >>
    /\ thread_results = << >>
    /\ calls = << >>
    /\ failed = {}
    /\ contained = {}
    /\ mismatch_at = {}
    /\ all_results = << >>
    /\ final_results = EmptyRecord
    /\ alias = EmptyRecord
    /\ merged = 0
    /\ report = NoReport

\* the window after ThreadSafeDocumentProcessorGUI.__init__
GuiStart ==
    /\ file_path = ""
    /\ num_threads_var = ToString(DefaultThreads)
    /\ processing_var = "word_count"
    /\ process_button = "normal"
    /\ is_processing = FALSE
    /\ thread_windows = 0
    /\ merged_result_text = ""
    /\ processing_threads = << >>
    /\ results_queue = << >>
    /\ events = << >>

Init ==
    /\ \E in \in Inputs :
          /\ text = in.text
          /\ chunk_size = in.chunk_size
          /\ num_threads = in.num_threads
          /\ processor \in in.processors
    /\ file_exists \in BOOLEAN
    /\ (~file_exists => text = << >> /\ chunk_size = 1)
    /\ chunk_results = << >>
    /\ InitRun
    /\ GuiStart

(* ----------------------- process_document_parallel --------------------- *)

Raise(e) ==
    /\ pc' = "raised"
    /\ error' = e

\* thread_chunks = self.split_document_for_threads(file_path, num_threads)
Split ==
    /\ pc = "start"
    /\ LET e == SplitError(file_exists, text, chunk_size, num_threads)
       IN  IF e # "none"
           THEN /\ Raise(e)
                /\ UNCHANGED << thread_chunks, chunk_ids, calls >>
           ELSE /\ pc' = "split"
                /\ thread_chunks' = SplitChunks(text, chunk_size, num_threads)
                /\ chunk_ids' = SplitIds(text, chunk_size, num_threads)
                /\ calls' = [i \in 0..(TotalChunks(text, chunk_size) - 1)
                                |-> 0]
                /\ UNCHANGED error
    /\ UNCHANGED << gui, inputs, pos, done, thread_results, failed, contained,
                    mismatch_at, merging, report >>

\* ThreadPoolExecutor(max_workers=num_threads) and one executor.submit per
\* list of thread_chunks; the constructor raises ValueError for
\* max_workers <= 0
Submit ==
    /\ pc = "split"
    /\ IF num_threads <= 0
       THEN /\ Raise("ValueError")
            /\ UNCHANGED << pos, done, thread_results >>
       ELSE /\ pc' = "collect"
            /\ pos' = [w \in Workers |-> 0]
            /\ done' = [w \in Workers |-> FALSE]
            /\ thread_results' = [w \in Workers |-> EmptyRecord]
            /\ UNCHANGED error
    /\ UNCHANGED << gui, inputs, thread_chunks, chunk_ids, calls, failed,
                    contained, mismatch_at, merging, report >>

\* a worker is inside process_chunks
Running(w) ==
    /\ pc \in {"collect", "merge", "returned"}
    /\ w \in Workers
    /\ ~done[w]

\* one iteration of the loop of process_chunks in which processor returns:
\* the call and the merge of chunk_result into thread_results; an exception
\* of the merge is caught by the except clause of the iteration
ProcessChunk(w) ==
    /\ Running(w)
    /\ pos[w] < Len(thread_chunks[w])
    /\ LET chunk == thread_chunks[w][pos[w] + 1]
           i == chunk_ids[w][pos[w] + 1]
           chunk_result == Apply(processor, chunk)
       IN  /\ calls' = [calls EXCEPT ![i] = @ + 1]
           /\ \E r \in Merge(thread_results[w], chunk_result) :
                 /\ thread_results' = [thread_results EXCEPT ![w] = r.rec]
                 /\ contained' = IF r.err = "none" THEN contained
                                 ELSE contained \cup {i}
           /\ mismatch_at' = IF ShapeMismatch(thread_results[w], chunk_result)
                              THEN mismatch_at \cup {"worker"}
                              ELSE mismatch_at
    /\ pos' = [pos EXCEPT ![w] = @ + 1]
    /\ UNCHANGED << gui, inputs, pc, error, thread_chunks, chunk_ids, done,
                    failed, merging, report >>

\* the try statement around the whole loop: the first exception ends the
\* worker's loop
ProcessChunkRaisesAborting(w) ==
    /\ Running(w)
    /\ pos[w] < Len(thread_chunks[w])
    /\ Cardinality(failed) < MaxFail
    /\ LET i == chunk_ids[w][pos[w] + 1]
       IN  /\ calls' = [calls EXCEPT ![i] = @ + 1]
           /\ failed' = failed \cup {i}
    /\ pos' = [pos EXCEPT ![w] = Len(thread_chunks[w])]
    /\ UNCHANGED << gui, inputs, pc, error, thread_chunks, chunk_ids, done,
                    thread_results, contained, mismatch_at, merging,
                    report >>

\* one iteration of the loop of process_chunks in which processor raises:
\* the exception is logged and the loop goes on
ProcessChunkRaises(w) ==
    /\ Running(w)
    /\ pos[w] < Len(thread_chunks[w])
    /\ Cardinality(failed) < MaxFail
    /\ LET i == chunk_ids[w][pos[w] + 1]
       IN  /\ calls' = [calls EXCEPT ![i] = @ + 1]
           /\ failed' = failed \cup {i}
    /\ pos' = [pos EXCEPT ![w] = @ + 1]
    /\ UNCHANGED << gui, inputs, pc, error, thread_chunks, chunk_ids, done,
                    thread_results, contained, mismatch_at, merging,
                    report >>

\* return thread_results placed inside the loop: the worker may return
\* before the last chunk of its batch
WorkerReturnEarly(w) ==
    /\ Running(w)
    /\ pos[w] >= Len(thread_chunks[w]) - 1
    /\ done' = [done EXCEPT ![w] = TRUE]
    /\ UNCHANGED << gui, inputs, pc, error, thread_chunks, chunk_ids, pos,
                    thread_results, calls, failed, contained, mismatch_at,
                    merging, report >>

\* return thread_results: the worker's future gets its result
WorkerReturn(w) ==
    /\ Running(w)
    /\ pos[w] = Len(thread_chunks[w])
    /\ done' = [done EXCEPT ![w] = TRUE]
    /\ UNCHANGED << gui, inputs, pc, error, thread_chunks, chunk_ids, pos,
                    thread_results, calls, failed, contained, mismatch_at,
                    merging, report >>

\* the results read from the workers' dicts without future.result(): the
\* main thread does not wait for the worker
CollectNoWait ==
    /\ pc = "collect"
    /\ LET w == Len(all_results) + 1
       IN  IF w \in Workers
           THEN /\ all_results' = Append(all_results, thread_results[w])
                /\ UNCHANGED pc
           ELSE /\ pc' = "merge"
                /\ UNCHANGED all_results
    /\ UNCHANGED << gui, inputs, error, thread_chunks, chunk_ids, workers,
                    mismatch_at, final_results, alias, merged, report >>

\* all_results = [future.result() for future in futures]: the next future,
\* in submission order, once it has a result
Collect ==
    /\ pc = "collect"
    /\ LET w == Len(all_results) + 1
       IN  IF w \in Workers
           THEN /\ done[w]
                /\ all_results' = Append(all_results, thread_results[w])
                /\ UNCHANGED pc
           ELSE /\ pc' = "merge"
                /\ UNCHANGED all_results
    /\ UNCHANGED << gui, inputs, error, thread_chunks, chunk_ids, workers,
                    mismatch_at, final_results, alias, merged, report >>

\* the objects shared between final_results and the workers' dicts after a
\* merge step: final_results[key] = value stores the worker's own set or
\* dict, so what update() and the item assignments later do to
\* final_results[key] is done to that worker's value
Shared(results, owner, final) ==
    [w \in DOMAIN results |->
        [k \in DOMAIN results[w] |->
            IF k \in DOMAIN owner /\ owner[k] = w THEN final[k]
            ELSE results[w][k]]]

\* one iteration of `for thread_result in all_results`; an exception of
\* the merge leaves process_document_parallel
MergeThreadResult ==
    /\ pc = "merge"
    /\ merged < Len(all_results)
    /\ LET w == merged + 1
           thread_result == all_results[w]
           owner == [k \in DOMAIN alias \cup
                           {j \in DOMAIN thread_result \ DOMAIN final_results :
                                thread_result[j].t \in {"set", "dict"}}
                       |-> IF k \in DOMAIN alias THEN alias[k] ELSE w]
       IN  \E r \in Merge(final_results, thread_result) :
              /\ mismatch_at' = IF ShapeMismatch(final_results, thread_result)
                                 THEN mismatch_at \cup {"final"}
                                 ELSE mismatch_at
              /\ final_results' = r.rec
              /\ alias' = owner
              /\ all_results' = Shared(all_results, owner, r.rec)
              /\ thread_results' = Shared(thread_results, owner, r.rec)
              /\ IF r.err = "none"
                 THEN UNCHANGED << pc, error >>
                 ELSE Raise(r.err)
    /\ merged' = merged + 1
    /\ UNCHANGED << gui, inputs, thread_chunks, chunk_ids, pos, done, calls,
                    failed, contained, report >>

\* final_results['unique_words'] = list(final_results['unique_words']) when
\* it is a set; the order of the list is the iteration order of the set,
\* which Python leaves open, so the list is kept as its set of elements
FormatUniqueWords(final) ==
    IF "unique_words" \in DOMAIN final /\ final["unique_words"].t = "set"
    THEN [final EXCEPT !["unique_words"] = ListV(@.v)]
    ELSE final

\* the end of process_document_parallel: the report (processing_time, a
\* wall-clock difference, is left out)
Return ==
    /\ pc = "merge"
    /\ merged = Len(all_results)
    /\ final_results' = FormatUniqueWords(final_results)
    /\ report' = [thread_results |-> all_results,
                  merged_results |-> final_results',
                  returned |-> TRUE]
    /\ pc' = "returned"
    /\ UNCHANGED << gui, inputs, error, thread_chunks, chunk_ids, workers,
                    mismatch_at, all_results, alias, merged >>

Next ==
    \/ Split
    \/ Submit
    \/ \E w \in Workers : ProcessChunk(w)
    \/ \E w \in Workers : ProcessChunkRaises(w)
    \/ \E w \in Workers : WorkerReturn(w)
    \/ Collect
    \/ MergeThreadResult
    \/ Return

Spec == Init /\ [][Next]_vars

Terminated == pc \in {"returned", "raised"}

(* ------------------------- notions of the claims ----------------------- *)

\* the aggregation functions that keep one value shape per key
ContractProcessors == {"word_count", "char_count", "unique_words"}

\* a configuration the specification accepts, on a readable file
ValidConfig == file_exists /\ chunk_size >= 1 /\ num_threads >= 1

\* the number of chunks of the document, for chunk_size >= 1
NumChunks == (Len(text) + chunk_size - 1) \div chunk_size

\* split_document_for_threads has returned
SplitDone == pc \in {"split", "collect", "merge", "returned"}

\* the chunk indices assigned to the workers, in worker order
RECURSIVE Concat(_, _)
Concat(seqs, w) ==
    IF w > Len(seqs) THEN << >> ELSE seqs[w] \o Concat(seqs, w + 1)

\* the chunks of the document in document order, as the split left them
AssignedIds == Concat(chunk_ids, 1)
AssignedChunks == Concat(thread_chunks, 1)

NoCalls == \A i \in DOMAIN calls : calls[i] = 0

RECURSIVE MergeChunksFrom(_, _, _, _, _, _)
\* the merge of the records of chunks i .. n-1 into acc, in document order
MergeChunksFrom(acc, txt, cs, proc, i, n) ==
    IF i >= n THEN acc
    ELSE MergeChunksFrom(
             (CHOOSE r \in Merge(acc, Apply(proc, Chunk(txt, cs, i))) : TRUE).rec,
             txt, cs, proc, i + 1, n)

\* merged_results of a run with one worker in which no call raises
OneWorkerMerged(txt, cs, proc) ==
    FormatUniqueWords(
        MergeChunksFrom(EmptyRecord, txt, cs, proc, 0, TotalChunks(txt, cs)))

(* -------------------------------- claims ------------------------------- *)

\* C1: with more workers than chunks the split returns normally, the
\* excess workers get empty batches, every chunk is assigned to a worker
\* and the run ends with a report (stated for a document that is not
\* empty).
C1_ExcessWorkersGetNoWork ==
    (ValidConfig /\ NumChunks >= 1 /\ num_threads > NumChunks) =>
        /\ pc # "raised"
        /\ SplitDone =>
              /\ Len(thread_chunks) = num_threads
              /\ Range(AssignedIds) = 0..(NumChunks - 1)
              /\ Cardinality({w \in 1..num_threads : thread_chunks[w] = << >>})
                     >= num_threads - NumChunks

\* C2: the runs with 1 worker and with 8 workers both complete, with equal
\* merged_results (stated for a document that is not empty).
C2_WorkerCountInvariance ==
    (ValidConfig /\ NumChunks >= 1 /\ num_threads \in {1, 8}
        /\ processor \in ContractProcessors /\ failed = {} /\ Terminated) =>
        /\ pc = "returned"
        /\ report.merged_results = OneWorkerMerged(text, chunk_size, processor)

\* the text of chunk i as the split left it
ChunkOf(i) ==
    AssignedChunks[CHOOSE k \in 1..Len(AssignedIds) : AssignedIds[k] = i]

RECURSIVE SumInt(_, _)
\* the sum of counter k over the records of the chunks in ids
SumInt(ids, k) ==
    IF ids = {} THEN 0
    ELSE LET i == CHOOSE j \in ids : TRUE
             rec == Apply(processor, ChunkOf(i))
         IN  (IF k \in DOMAIN rec /\ rec[k].t = "int" THEN rec[k].v ELSE 0)
             + SumInt(ids \ {i}, k)

\* the chunks whose call returned
Successful == {i \in DOMAIN calls : calls[i] > 0 /\ i \notin failed}

\* C4: when the aggregation function raises for exactly one chunk, no
\* exception leaves the run, the report is returned, every chunk has been
\* handed to the function once, and every integer total of merged_results
\* is the sum of that counter over the chunks whose call returned.
C4_PartialFailureContained ==
    (processor \in ContractProcessors /\ Cardinality(failed) = 1) =>
        /\ pc # "raised"
        /\ pc = "returned" =>
              /\ report.returned
              /\ \A i \in DOMAIN calls : calls[i] = 1
              /\ DOMAIN report.merged_results =
                     UNION {DOMAIN Apply(processor, ChunkOf(i)) : i \in Successful}
              /\ \A k \in DOMAIN report.merged_results :
                     report.merged_results[k].t = "int" =>
                         report.merged_results[k].v = SumInt(Successful, k)

\* a run of at least two workers and three chunks returned with one failed
\* call and a positive total
C4_Witness ==
    /\ pc = "returned"
    /\ processor \in ContractProcessors
    /\ Cardinality(failed) = 1
    /\ num_threads >= 2
    /\ Len(AssignedIds) >= 3
    /\ \E k \in DOMAIN report.merged_results :
           /\ report.merged_results[k].t = "int"
           /\ report.merged_results[k].v > 0

\* C5: a merge that meets two value shapes under one key, in a worker or in
\* the final merge, ends the run with an error and without a report.
C5_MismatchIsFatal ==
    (Terminated /\ mismatch_at # {}) =>
        /\ pc = "raised"
        /\ ~report.returned

\* C6: a chunk size or worker count that is not positive is rejected before
\* the document is split, before any call of the aggregation function, and
\* no report is returned.
C6_PreflightValidation ==
    (file_exists /\ (chunk_size <= 0 \/ num_threads <= 0)) =>
        /\ pc \in {"start", "raised"}
        /\ thread_chunks = << >>
        /\ NoCalls
        /\ ~report.returned

\* the window text[i*S : (i+1)*S] of chunk i, for S >= 1
Window(i) ==
    SubSeq(text, i * chunk_size + 1, Min((i + 1) * chunk_size, Len(text)))

\* the positions k of the split whose chunk is not the final one
NonFinal == {k \in 1..Len(AssignedIds) : AssignedIds[k] < NumChunks - 1}

C8_BatchPartition ==
    (ValidConfig /\ NumChunks >= num_threads /\ SplitDone) =>
        /\ Len(thread_chunks) = num_threads
        /\ Len(chunk_ids) = num_threads
        /\ AssignedIds = [k \in 1..NumChunks |-> k - 1]
        /\ \A w \in 1..num_threads :
               /\ Len(thread_chunks[w]) = Len(chunk_ids[w])
               /\ Len(chunk_ids[w]) =
                      IF w < num_threads THEN NumChunks \div num_threads
                      ELSE (NumChunks \div num_threads)
                           + (NumChunks % num_threads)

\* a split into at least two batches with a remainder
C8_Witness ==
    /\ ValidConfig
    /\ SplitDone
    /\ num_threads >= 2
    /\ NumChunks > num_threads
    /\ NumChunks % num_threads # 0
    /\ Len(chunk_ids[num_threads]) > Len(chunk_ids[1])

\* C9: "the cat sat on the mat" with chunk size 10, word_count_processor
\* and one worker gives total_words = 6 and the word frequencies of the
\* sentence.
C9_CatScenario ==
    (file_exists /\ text = CatDoc /\ chunk_size = 10
        /\ num_threads = 1 /\ processor = "word_count" /\ failed = {}
        /\ Terminated) =>
        /\ pc = "returned"
        /\ report.merged_results["total_words"] = IntV(6)
        /\ report.merged_results["word_frequencies"] =
               DictV([w \in {<< "t", "h", "e" >>, << "c", "a", "t" >>,
                             << "s", "a", "t" >>, << "o", "n" >>,
                             << "m", "a", "t" >>} |->
                         IF w = << "t", "h", "e" >> THEN IntV(2) ELSE IntV(1)])

\* C10: an empty document gives no chunk, no call, no error, and a report
\* whose merged result has no non-zero counter and no non-empty set or
\* table.
C10_EmptyDocument ==
    (ValidConfig /\ text = << >>) =>
        /\ pc # "raised"
        /\ NoCalls
        /\ SplitDone => AssignedChunks = << >>
        /\ pc = "returned" =>
              /\ report.returned
              /\ \A k \in DOMAIN report.merged_results :
                     LET x == report.merged_results[k]
                     IN  IF x.t = "int" THEN x.v = 0
                         ELSE IF x.t = "dict" THEN DOMAIN x.v = {}
                         ELSE x.v = {}

(* ----------------------------- merge-only runs ------------------------- *)
(* The merge loops on their own: the workers are handed records in the     *)
(* place of chunks, so that every order and every grouping of a multiset   *)
(* of records is a run.                                                    *)

WordA == << "a" >>
WordB == << "b" >>

\* the records {'total_words': n}, {'unique_words': S} and
\* {'word_frequencies': f}; @@ joins records with different keys
Counter(n) == "total_words" :> IntV(n)
WordSet(S) == "unique_words" :> SetV(S)
Table(f) == "word_frequencies" :> DictV(f)

TableA1 == [w \in {WordA} |-> IntV(1)]
TableA2B1 == [w \in {WordA, WordB} |-> IF w = WordA THEN IntV(2) ELSE IntV(1)]
TableB2 == [w \in {WordB} |-> IntV(2)]

\* records whose keys keep one value shape: an int under total_words, a
\* set under unique_words, a table under word_frequencies
RecordPool ==
    { EmptyRecord,
      Counter(1), WordSet({WordA}), Table(TableA1),
      Counter(1) @@ WordSet({WordB}) @@ Table(TableB2),
      Counter(2) @@ WordSet({WordA}) @@ Table(TableA2B1) }

RECURSIVE RecordSeqs(_)
RecordSeqs(n) ==
    IF n = 0 THEN {<< >>}
    ELSE {Append(q, r) : q \in RecordSeqs(n - 1), r \in RecordPool}

\* the records of seq that g assigns to worker w, in the order of seq
RECURSIVE Assigned(_, _, _, _)
Assigned(seq, g, w, k) ==
    IF k > Len(seq) THEN << >>
    ELSE (IF g[k] = w THEN << seq[k] >> ELSE << >>)
         \o Assigned(seq, g, w, k + 1)

MergeInit ==
    /\ \E n \in 0..MaxRecords, nw \in 1..MaxMergeWorkers :
          \E seq \in RecordSeqs(n) :
             \E g \in [1..n -> 1..nw] :
                /\ num_threads = nw
                /\ chunk_results = [w \in 1..nw |-> Assigned(seq, g, w, 1)]
    /\ file_exists = TRUE
    /\ text = << >>
    /\ chunk_size = 1
    /\ processor = "word_count"
    /\ pc = "collect"
    /\ error = "none"
    /\ thread_chunks = [w \in Workers |->
                           [k \in 1..Len(chunk_results[w]) |-> << >>]]
    /\ chunk_ids = [w \in Workers |->
                       [k \in 1..Len(chunk_results[w]) |-> k - 1]]
    /\ pos = [w \in Workers |-> 0]
    /\ done = [w \in Workers |-> FALSE]
    /\ thread_results = [w \in Workers |-> EmptyRecord]
    /\ calls = << >>
    /\ failed = {}
    /\ contained = {}
    /\ mismatch_at = {}
    /\ all_results = << >>
    /\ final_results = EmptyRecord
    /\ alias = EmptyRecord
    /\ merged = 0
    /\ report = NoReport
    /\ GuiStart

\* the merge of one given record into the worker's record: the loop body of
\* process_chunks after the call of processor
MergeChunkResult(w) ==
    /\ Running(w)
    /\ pos[w] < Len(chunk_results[w])
    /\ LET chunk_result == chunk_results[w][pos[w] + 1]
       IN  /\ \E r \in Merge(thread_results[w], chunk_result) :
                 /\ thread_results' = [thread_results EXCEPT ![w] = r.rec]
                 /\ contained' = IF r.err = "none" THEN contained
                                 ELSE contained \cup {pos[w]}
           /\ mismatch_at' = IF ShapeMismatch(thread_results[w], chunk_result)
                              THEN mismatch_at \cup {"worker"}
                              ELSE mismatch_at
    /\ pos' = [pos EXCEPT ![w] = @ + 1]
    /\ UNCHANGED << gui, inputs, pc, error, thread_chunks, chunk_ids, done,
                    calls, failed, merging, report >>

MergeNext ==
    \/ \E w \in Workers : MergeChunkResult(w)
    \/ \E w \in Workers : WorkerReturn(w)
    \/ Collect
    \/ MergeThreadResult
    \/ Return

MergeSpec == MergeInit /\ [][MergeNext]_vars

\* the records handed to the workers, as one sequence
GivenRecords == Concat(chunk_results, 1)

RECURSIVE SumOf(_, _, _)
\* the sum of the counters under key in the records from position k on
SumOf(seq, key, k) ==
    IF k > Len(seq) THEN 0
    ELSE (IF key \in DOMAIN seq[k] THEN seq[k][key].v ELSE 0)
         + SumOf(seq, key, k + 1)

RECURSIVE SumOfEntry(_, _, _, _)
\* the sum of the entries for word in the tables under key
SumOfEntry(seq, key, word, k) ==
    IF k > Len(seq) THEN 0
    ELSE (IF key \in DOMAIN seq[k] /\ word \in DOMAIN seq[k][key].v
          THEN seq[k][key].v[word].v ELSE 0)
         + SumOfEntry(seq, key, word, k + 1)

\* what a multiset of records of consistent shapes merges to: the sum of
\* the counters, the union of the sets, the pointwise sum of the tables
MergedValue(seq, key) ==
    LET having == {k \in 1..Len(seq) : key \in DOMAIN seq[k]}
        shape == seq[CHOOSE k \in having : TRUE][key].t
    IN  IF shape = "int" THEN IntV(SumOf(seq, key, 1))
        ELSE IF shape = "set"
        THEN SetV(UNION {seq[k][key].v : k \in having})
        ELSE DictV([word \in UNION {DOMAIN seq[k][key].v : k \in having} |->
                       IntV(SumOfEntry(seq, key, word, 1))])

MergedRecord(seq) ==
    [key \in UNION {DOMAIN seq[k] : k \in 1..Len(seq)} |->
        MergedValue(seq, key)]

\* C3: records of consistent shapes merge to the same final record in
\* every order and under every grouping into per-worker merges: the final
\* record is the one the multiset of records determines, and no merge step
\* raises.
C3_MergeOrderIndependent ==
    /\ pc # "raised"
    /\ contained = {}
    /\ pc = "returned" =>
          report.merged_results = FormatUniqueWords(MergedRecord(GivenRecords))

\* a merge-only run of two workers has returned the merge of three records
\* that share a counter, a set and a table
C3_Witness ==
    /\ pc = "returned"
    /\ chunk_results # << >>
    /\ Len(GivenRecords) = 3
    /\ \A w \in Workers : chunk_results[w] # << >>
    /\ \A k \in 1..2 : GivenRecords[k] # GivenRecords[k + 1]
    /\ \A k \in 1..3 : DOMAIN GivenRecords[k] =
                          {"total_words", "unique_words", "word_frequencies"}

(* --------------------- threads, the report, the split ------------------ *)

\* C11: the record of worker w changes only in an iteration of worker w's
\* own loop, and final_results changes only in a step of the main thread
\* that is taken when no worker is running.
C11_SerializedMutation ==
    [][/\ \A w \in DOMAIN thread_results :
              thread_results'[w] # thread_results[w] =>
                  /\ Running(w)
                  /\ pos'[w] = pos[w] + 1
       /\ final_results' # final_results =>
              /\ pc = "merge"
              /\ \A w \in Workers : done[w]]_vars

\* the part of C11 about threads running at the same time: a worker's
\* record changes in a step of another thread only when that worker has
\* returned, and final_results only when every worker has returned
NoConcurrentMutation ==
    [][/\ \A w \in DOMAIN thread_results :
              thread_results'[w] # thread_results[w] =>
                  \/ Running(w) /\ pos'[w] = pos[w] + 1
                  \/ pc = "merge" /\ \A v \in Workers : done[v]
       /\ final_results' # final_results =>
              /\ pc = "merge"
              /\ \A w \in Workers : done[w]]_vars

\* C12: the final merge starts and the report is returned only when every
\* worker has handled every chunk of its batch and returned, and the report
\* is returned only when every worker's record has been collected and
\* merged into final_results.
C12_JoinBeforeReport ==
    /\ pc \in {"merge", "returned"} =>
           \A w \in Workers :
               /\ done[w]
               /\ pos[w] = Len(thread_chunks[w])
    /\ report.returned =>
           /\ pc = "returned"
           /\ Len(all_results) = num_threads
           /\ merged = num_threads
           /\ Len(report.thread_results) = num_threads
           /\ \A i \in DOMAIN calls : calls[i] = 1

\* the report of a run of two workers, each with chunks, in which one call
\* raised
C12_Witness ==
    /\ report.returned
    /\ num_threads >= 2
    /\ \A w \in Workers : Len(thread_chunks[w]) >= 1
    /\ failed # {}

\* the records of the chunks of worker w's batch, in batch order
BatchRecords(w) ==
    [k \in 1..Len(thread_chunks[w]) |-> Apply(processor, thread_chunks[w][k])]

\* C13: in the report of a run in which no call raised, thread_results has
\* one entry per worker, in worker order, and the entry of worker w is the
\* merge of the records of the chunks of worker w's own batch.
C13_BreakdownPreserved ==
    (pc = "returned" /\ processor \in ContractProcessors /\ failed = {}) =>
        /\ Len(report.thread_results) = num_threads
        /\ \A w \in Workers :
               report.thread_results[w] = MergedRecord(BatchRecords(w))

\* the index of the last whitespace character of the window, 0 without one
LastWhitespace(window) ==
    LET ws == {j \in 1..Len(window) : IsWhitespace(window[j])}
    IN  IF ws = {} THEN 0 ELSE CHOOSE j \in ws : \A m \in ws : m <= j

\* C14: a chunk whose window ends before the end of the text is the window
\* cut at its last whitespace character (space, tab or newline) when it has
\* one and the whole window otherwise; the chunk of the final window is the
\* whole window.
C14_TrimmingRule ==
    (ValidConfig /\ SplitDone) =>
        \A k \in 1..Len(AssignedIds) :
            LET c == AssignedChunks[k]
                window == Window(AssignedIds[k])
                last == LastWhitespace(window)
            IN  IF k \in NonFinal /\ last > 0
                THEN c = SubSeq(window, 1, last - 1)
                ELSE c = window

\* the positions of the text between the end of a chunk and the end of its
\* window
Dropped ==
    {p \in 1..Len(text) :
        \E k \in 1..Len(AssignedIds) :
            /\ AssignedIds[k] * chunk_size + Len(AssignedChunks[k]) < p
            /\ p <= Min((AssignedIds[k] + 1) * chunk_size, Len(text))}

RECURSIVE TotalLen(_, _)
\* the number of characters of the chunks from position k on
TotalLen(chunks, k) ==
    IF k > Len(chunks) THEN 0 ELSE Len(chunks[k]) + TotalLen(chunks, k + 1)

\* C15: the split has one chunk per window, in document order; chunk i is
\* the text from offset i*S on, at most to the end of window i, wherever
\* chunk i-1 was cut; the characters of the text are those of the chunks
\* and those between a cut and the end of its window, which are in no
\* chunk; and the aggregation function is called for the chunks only.
C15_FixedStride ==
    (ValidConfig /\ SplitDone) =>
        /\ AssignedIds = [k \in 1..NumChunks |-> k - 1]
        /\ \A k \in 1..Len(AssignedIds) :
               LET start == AssignedIds[k] * chunk_size
                   c == AssignedChunks[k]
               IN  /\ Len(c) <= Len(Window(AssignedIds[k]))
                   /\ c = SubSeq(text, start + 1, start + Len(c))
        /\ TotalLen(AssignedChunks, 1) + Cardinality(Dropped) = Len(text)
        /\ DOMAIN calls = Range(AssignedIds)

\* a split that cut a chunk and dropped a character that is not a space,
\* with every chunk handed to the aggregation function
C15_Witness ==
    /\ ValidConfig
    /\ pc = "returned"
    /\ \E p \in Dropped : ~IsWhitespace(text[p])
    /\ \A i \in DOMAIN calls : calls[i] = 1

\* the records of the chunks of the split, in document order
ChunkRecords ==
    [k \in 1..Len(AssignedChunks) |-> Apply(processor, AssignedChunks[k])]

\* C16: in a run in which no call raised, no chunk is handed to the
\* aggregation function twice, in the report every chunk of the split has
\* been handed to it once, and merged_results is the sum of the counters,
\* the union of the sets and the pointwise sum of the tables of the records
\* of the chunks.
C16_ExactlyOnce ==
    (processor \in ContractProcessors /\ failed = {}) =>
        /\ \A i \in DOMAIN calls : calls[i] <= 1
        /\ pc = "returned" =>
              /\ DOMAIN calls = Range(AssignedIds)
              /\ Len(AssignedIds) = Cardinality(Range(AssignedIds))
              /\ \A i \in DOMAIN calls : calls[i] = 1
              /\ report.merged_results =
                     FormatUniqueWords(MergedRecord(ChunkRecords))

\* the report of a run of two workers over at least three chunks, with a
\* word that occurs in the chunks of both workers
C16_Witness ==
    /\ pc = "returned"
    /\ processor \in ContractProcessors
    /\ failed = {}
    /\ num_threads >= 2
    /\ Len(AssignedIds) >= 3
    /\ \A w \in Workers :
           \E k \in 1..Len(thread_chunks[w]) :
               << "a" >> \in Range(Words(thread_chunks[w][k]))

\* C17: in the report of a run with unique_words_processor in which no
\* call raised, unique_words_count is the number of words of unique_words.
C17_UniqueWordConsistency ==
    (pc = "returned" /\ processor = "unique_words" /\ failed = {}
        /\ DOMAIN calls # {}) =>
        /\ DOMAIN report.merged_results = {"unique_words_count", "unique_words"}
        /\ report.merged_results["unique_words_count"].v =
               Cardinality(report.merged_results["unique_words"].v)

(* ------------------------------- the window ---------------------------- *)
(* gui1.py: the Tk main loop runs the handlers of the window one at a      *)
(* time, and each safe_process_file runs in a thread of its own.           *)

\* the largest number typed into the spinbox
MaxSpin == 2

\* chunk_size: int = 10000, the chunk size of the window's DocumentProcessor()
DefaultChunkSize == 10000

engine == << inputs, pc, error, thread_chunks, chunk_ids, workers,
            mismatch_at, merging, report >>

\* the paths the file entry holds: none, one that names no file, an empty
\* file, a file with the sentence
GuiFiles == {"", "missing.txt", "empty.txt", "cat.txt"}

\* os.path.exists(file_path)
Exists(path) == path \in {"empty.txt", "cat.txt"}

FileText(path) == IF path = "cat.txt" THEN CatDoc ELSE << >>

\* the texts the spinbox holds: numbers, and the field left empty
SpinNumbers == (0..MaxSpin) \cup {DefaultThreads}
SpinTexts == {ToString(n) : n \in SpinNumbers} \cup {""}

\* self.num_threads.get() returns the int the text stands for and raises
\* for a text that is no int
IsInt(s) == \E n \in SpinNumbers : ToString(n) = s
IntOf(s) == CHOOSE n \in SpinNumbers : ToString(n) = s

\* how process_document_parallel(file_path, processor_func, threads) ends
\* for the window's DocumentProcessor: "results" or the exception raised
\* (the three functions of the radio buttons raise no merge error)
RunOutcome(path, threads) ==
    LET e == SplitError(Exists(path), FileText(path), DefaultChunkSize,
                        threads)
    IN  IF e # "none" THEN e
        ELSE IF threads <= 0 THEN "ValueError"
        ELSE "results"

ProcessingComplete == "<<ProcessingComplete>>"
ProcessingError == "<<ProcessingError>>"

\* the user edits the file entry or picks a file with Browse
EditFilePath ==
    /\ \E path \in GuiFiles : file_path' = path
    /\ UNCHANGED << engine, num_threads_var, processing_var, process_button,
                    is_processing, thread_windows, merged_result_text,
                    processing_threads, results_queue, events >>

\* the user edits the spinbox
EditNumThreads ==
    /\ \E s \in SpinTexts : num_threads_var' = s
    /\ UNCHANGED << engine, file_path, processing_var, process_button,
                    is_processing, thread_windows, merged_result_text,
                    processing_threads, results_queue, events >>

\* the user picks a radio button
SelectProcessing ==
    /\ \E p \in ContractProcessors : processing_var' = p
    /\ UNCHANGED << engine, file_path, num_threads_var, process_button,
                    is_processing, thread_windows, merged_result_text,
                    processing_threads, results_queue, events >>

\* the thread started by start_processing, before its first statement
NewThread(path, func, threads) ==
    [at |-> "set", file_path |-> path, processor_func |-> func,
     threads |-> threads, outcome |-> "none"]

\* start_processing without process_button.config(state=tk.DISABLED)
StartProcessingKeepsButton ==
    /\ process_button = "normal"
    /\ IF is_processing
       THEN UNCHANGED << process_button, is_processing, thread_windows,
                         merged_result_text, processing_threads >>
       ELSE /\ merged_result_text' = ""
            /\ IF ~Exists(file_path)
               THEN /\ thread_windows' = 0
                    /\ UNCHANGED << process_button, is_processing,
                                    processing_threads >>
               ELSE /\ UNCHANGED process_button
                    /\ is_processing' = FALSE
                    /\ IF ~IsInt(num_threads_var)
                       THEN /\ thread_windows' = 0
                            /\ UNCHANGED processing_threads
                       ELSE LET threads == IntOf(num_threads_var)
                            IN  /\ thread_windows' = Max(threads, 0)
                                /\ processing_threads' =
                                       Append(processing_threads,
                                              NewThread(file_path,
                                                        processing_var,
                                                        threads))
    /\ UNCHANGED << engine, file_path, num_threads_var, processing_var,
                    results_queue, events >>

\* start_processing, the command of the Start button: a click reaches it
\* only while the button is enabled. It returns at once when is_processing
\* is set and, after clearing the boxes, when the path names no file;
\* otherwise it disables the button, clears is_processing, reads the
\* spinbox (its exception leaves the handler there), opens a window per
\* thread and starts the thread
StartProcessing ==
    /\ process_button = "normal"
    /\ IF is_processing
       THEN UNCHANGED << process_button, is_processing, thread_windows,
                         merged_result_text, processing_threads >>
       ELSE /\ merged_result_text' = ""
            /\ IF ~Exists(file_path)
               THEN /\ thread_windows' = 0
                    /\ UNCHANGED << process_button, is_processing,
                                    processing_threads >>
               ELSE /\ process_button' = "disabled"
                    /\ is_processing' = FALSE
                    /\ IF ~IsInt(num_threads_var)
                       THEN /\ thread_windows' = 0
                            /\ UNCHANGED processing_threads
                       ELSE LET threads == IntOf(num_threads_var)
                            IN  /\ thread_windows' = Max(threads, 0)
                                /\ processing_threads' =
                                       Append(processing_threads,
                                              NewThread(file_path,
                                                        processing_var,
                                                        threads))
    /\ UNCHANGED << engine, file_path, num_threads_var, processing_var,
                    results_queue, events >>

\* the threads without thread t
Without(threads, t) ==
    [k \in 1..(Len(threads) - 1) |->
        IF k < t THEN threads[k] ELSE threads[k + 1]]

\* safe_process_file: self.is_processing.set()
SetIsProcessing(t) ==
    /\ processing_threads[t].at = "set"
    /\ is_processing' = TRUE
    /\ processing_threads' =
           [processing_threads EXCEPT ![t].at = "process"]
    /\ UNCHANGED << engine, file_path, num_threads_var, processing_var,
                    process_button, thread_windows, merged_result_text,
                    results_queue, events >>

\* safe_process_file: the call of process_document_parallel, which returns
\* the results or raises
ProcessDocument(t) ==
    /\ processing_threads[t].at = "process"
    /\ processing_threads' =
           [processing_threads EXCEPT
               ![t].at = "put",
               ![t].outcome = RunOutcome(processing_threads[t].file_path,
                                         processing_threads[t].threads)]
    /\ UNCHANGED << engine, file_path, num_threads_var, processing_var,
                    process_button, is_processing, thread_windows,
                    merged_result_text, results_queue, events >>

\* safe_process_file: self.results_queue.put(results), or put(e) in the
\* except clause
PutResult(t) ==
    /\ processing_threads[t].at = "put"
    /\ results_queue' = Append(results_queue, processing_threads[t].outcome)
    /\ processing_threads' =
           [processing_threads EXCEPT ![t].at = "notify"]
    /\ UNCHANGED << engine, file_path, num_threads_var, processing_var,
                    process_button, is_processing, thread_windows,
                    merged_result_text, events >>

\* safe_process_file: self.master.event_generate(...), its last statement
GenerateEvent(t) ==
    /\ processing_threads[t].at = "notify"
    /\ events' = Append(events,
                        IF processing_threads[t].outcome = "results"
                        THEN ProcessingComplete ELSE ProcessingError)
    /\ processing_threads' = Without(processing_threads, t)
    /\ UNCHANGED << engine, file_path, num_threads_var, processing_var,
                    process_button, is_processing, thread_windows,
                    merged_result_text, results_queue >>

\* on_processing_complete: with an item in the queue the button is enabled
\* and is_processing cleared before the results are shown; queue.Empty is
\* passed over
OnProcessingComplete ==
    /\ events # << >>
    /\ Head(events) = ProcessingComplete
    /\ events' = Tail(events)
    /\ IF results_queue = << >>
       THEN UNCHANGED << results_queue, process_button, is_processing,
                         merged_result_text >>
       ELSE /\ results_queue' = Tail(results_queue)
            /\ process_button' = "normal"
            /\ is_processing' = FALSE
            /\ merged_result_text' =
                   IF Head(results_queue) = "results" THEN "results"
                   ELSE merged_result_text
    /\ UNCHANGED << engine, file_path, num_threads_var, processing_var,
                    thread_windows, processing_threads >>

\* on_processing_error: the error is taken from the queue and shown; the
\* finally clause enables the button and clears is_processing
OnProcessingError ==
    /\ events # << >>
    /\ Head(events) = ProcessingError
    /\ events' = Tail(events)
    /\ results_queue' = IF results_queue = << >> THEN << >>
                        ELSE Tail(results_queue)
    /\ process_button' = "normal"
    /\ is_processing' = FALSE
    /\ UNCHANGED << engine, file_path, num_threads_var, processing_var,
                    thread_windows, merged_result_text, processing_threads >>

GuiInit ==
    /\ GuiStart
    /\ file_exists = TRUE
    /\ text = << >>
    /\ chunk_size = DefaultChunkSize
    /\ num_threads = DefaultThreads
    /\ processor = "word_count"
    /\ chunk_results = << >>
    /\ InitRun

ThreadStep ==
    \E t \in DOMAIN processing_threads :
        \/ SetIsProcessing(t)
        \/ ProcessDocument(t)
        \/ PutResult(t)
        \/ GenerateEvent(t)

GuiNext ==
    \/ EditFilePath
    \/ EditNumThreads
    \/ SelectProcessing
    \/ StartProcessing
    \/ \E t \in DOMAIN processing_threads : SetIsProcessing(t)
    \/ \E t \in DOMAIN processing_threads : ProcessDocument(t)
    \/ \E t \in DOMAIN processing_threads : PutResult(t)
    \/ \E t \in DOMAIN processing_threads : GenerateEvent(t)
    \/ OnProcessingComplete
    \/ OnProcessingError

GuiSpec == GuiInit /\ [][GuiNext]_vars

\* a started thread goes on running, and the main loop handles the events
\* generated; nothing makes the user act
GuiFairSpec ==
    /\ GuiSpec
    /\ WF_vars(ThreadStep)
    /\ WF_vars(OnProcessingComplete)
    /\ WF_vars(OnProcessingError)

\* C18: at most one thread runs safe_process_file and the results queue
\* holds at most one item.
C18_SingleRunInFlight ==
    /\ Len(processing_threads) <= 1
    /\ Len(results_queue) <= 1

\* the thread of a run that raised has put the exception in the queue and
\* is about to generate its event, the Start button still disabled
C18_Witness ==
    /\ Len(processing_threads) = 1
    /\ processing_threads[1].at = "notify"
    /\ Len(results_queue) = 1
    /\ results_queue[1] # "results"
    /\ process_button = "disabled"

\* C19: once start_processing has disabled the Start button, the button is
\* enabled again and is_processing is cleared at some later time.
C19_StartButtonRecovery ==
    (process_button = "disabled") ~>
        (process_button = "normal" /\ ~is_processing)

====
